---------------------------- MODULE Spec2Model ----------------------------
(***************************************************************************)
(* Model of the PIV tool's utility layer: the TLV length codec             *)
(* (get_length / set_length), the fixed-width component writer             *)
(* (set_component_with_len), the DigestInfo headers (get_hash), the        *)
(* DigestInfo builder (prepare_rsa_signature), the selector tables and the *)
(* PKCS#11 helpers do_store_cert and do_pkcs_t1.                           *)
(*                                                                         *)
(* The functions are pure; each specification below draws the inputs of    *)
(* one group of functions in Init (or in the action's \E) and applies the  *)
(* functions in its actions.  Bytes are naturals below 256; a C buffer is  *)
(* a function from offsets 0..n-1 to bytes.                                *)
(***************************************************************************)
EXTENDS Integers, Sequences, FiniteSets

VARIABLES
  \* ---- length codec (get_length / set_length) ----
  pc,          \* "start" | "encoded" | "decoded" | "off"
  buffer,      \* the caller's buffer, offsets 0..CodecBufLen-1
  length,      \* the argument of the last set_length, -1 before any
  set_ret,     \* what set_length returned, -1 before any
  len,         \* the caller's int that get_length writes through *len
  get_ret,     \* what get_length returned, -1 before any
  \* ---- do_store_cert ----
  store,       \* the call's arguments, locals and result (see InitStore)
  \* ---- do_pkcs_t1 ----
  pkcs,        \* the call's arguments and result (see InitPkcs)
  \* ---- selector tables, get_hash, DigestInfo ----
  call,        \* the last call of a table function: its name, arguments, results
  signinput,   \* the DigestInfo a caller built from get_hash's header
  \* ---- set_component_with_len ----
  comp         \* the output buffer, the cursor *in_ptr and the last call

codecVars == <<pc, buffer, length, set_ret, len, get_ret>>

--------------------------------------------------------------------------
(* Bounds of the length codec's inputs *)

\* set_length is applied to every length 0..MaxLength; the claims are about
\* 0..0xFFFF, the lengths above show the 16-bit truncation.
MaxLength == 65800

\* Size of the caller's buffer handed to the codec.
CodecBufLen == 4

Byte == 0..255

\* Largest length the 3-byte form can carry (two value bytes).
TwoByteMax == 256 * 256 - 1

\* What a caller's buffer may hold before set_length writes to it.
FillBytes == {85, 170}

\* Values for the second and third byte of a length field handed to
\* get_length (the first byte ranges over all of Byte).
ByteSamples == {0, 1, 2, 127, 128, 129, 255}

\* Values an automatic int may hold before anything was assigned to it.
GarbageInts == {-1, 4660}

--------------------------------------------------------------------------
(* util.c: get_length *)

\* get_length with the one-byte bound taken as 0x80 instead of 0x81.
get_length_short80(buf, off, old) ==
  IF buf[off] < 128
    THEN [ret |-> 1, len |-> buf[off]]
    ELSE IF buf[off] % 128 = 1
      THEN [ret |-> 2, len |-> buf[off + 1]]
      ELSE IF buf[off] % 128 = 2
        THEN [ret |-> 3, len |-> buf[off + 1] * 256 + buf[off + 2]]
        ELSE [ret |-> 0, len |-> old]

\* int get_length(const unsigned char *buffer, int *len), reading at offset
\* off of buf; old is the value *len holds before the call.
get_length(buf, off, old) ==
  IF buf[off] < 129
    THEN [ret |-> 1, len |-> buf[off]]
    ELSE IF buf[off] % 128 = 1
      THEN [ret |-> 2, len |-> buf[off + 1]]
      ELSE IF buf[off] % 128 = 2
        THEN [ret |-> 3, len |-> buf[off + 1] * 256 + buf[off + 2]]
        ELSE [ret |-> 0, len |-> old]

(* util.c: set_length *)

\* set_length with the two-byte bound taken as <= 0xff instead of < 0xff.
set_length_le255(buf, off, l) ==
  IF l < 128
    THEN [ret |-> 1, buf |-> [buf EXCEPT ![off] = l % 256]]
    ELSE IF l <= 255
      THEN [ret |-> 2,
            buf |-> [buf EXCEPT ![off] = 129, ![off + 1] = l % 256]]
      ELSE [ret |-> 3,
            buf |-> [buf EXCEPT ![off] = 130,
                                ![off + 1] = (l \div 256) % 256,
                                ![off + 2] = l % 256]]

\* set_length storing the 16-bit value low byte first.
set_length_swapped(buf, off, l) ==
  IF l < 128
    THEN [ret |-> 1, buf |-> [buf EXCEPT ![off] = l % 256]]
    ELSE IF l < 255
      THEN [ret |-> 2,
            buf |-> [buf EXCEPT ![off] = 129, ![off + 1] = l % 256]]
      ELSE [ret |-> 3,
            buf |-> [buf EXCEPT ![off] = 130,
                                ![off + 1] = l % 256,
                                ![off + 2] = (l \div 256) % 256]]

\* int set_length(unsigned char *buffer, int length), writing at offset off
\* of buf.  A store into an unsigned char keeps the low 8 bits.
set_length(buf, off, l) ==
  IF l < 128
    THEN [ret |-> 1, buf |-> [buf EXCEPT ![off] = l % 256]]
    ELSE IF l < 255
      THEN [ret |-> 2,
            buf |-> [buf EXCEPT ![off] = 129, ![off + 1] = l % 256]]
      ELSE [ret |-> 3,
            buf |-> [buf EXCEPT ![off] = 130,
                                ![off + 1] = (l \div 256) % 256,
                                ![off + 2] = l % 256]]

--------------------------------------------------------------------------
(* The codec's harness: encode a length into a fresh buffer, decode it. *)

FilledBuffer(n, fill) == [i \in 0..(n - 1) |-> fill]

\* A caller's buffer with unspecified content and an unset int.
InitCodec ==
  /\ pc = "start"
  /\ \E fill \in FillBytes : buffer = FilledBuffer(CodecBufLen, fill)
  /\ length = -1
  /\ set_ret = -1
  /\ len \in GarbageInts
  /\ get_ret = -1
  /\ store = [pc |-> "off"]
  /\ pkcs = [pc |-> "off"]
  /\ call = [fn |-> "off"] /\ signinput = [built |-> FALSE]
  /\ comp = [calls |-> -1]

\* A length field as the card sent it: any first byte, sampled followers.
InitDecode ==
  /\ pc = "start"
  /\ \E b0 \in Byte, b1 \in ByteSamples, b2 \in ByteSamples, fill \in FillBytes :
       buffer = [i \in 0..(CodecBufLen - 1) |->
                   IF i = 0 THEN b0 ELSE IF i = 1 THEN b1
                   ELSE IF i = 2 THEN b2 ELSE fill]
  /\ length = -1
  /\ set_ret = -1
  /\ len \in GarbageInts
  /\ get_ret = -1
  /\ store = [pc |-> "off"]
  /\ pkcs = [pc |-> "off"]
  /\ call = [fn |-> "off"] /\ signinput = [built |-> FALSE]
  /\ comp = [calls |-> -1]

SetLength ==
  /\ pc = "start"
  /\ \E l \in 0..MaxLength :
       LET r == set_length(buffer, 0, l) IN
         /\ buffer' = r.buf
         /\ length' = l
         /\ set_ret' = r.ret
  /\ pc' = "encoded"
  /\ UNCHANGED <<len, get_ret>>

GetLength ==
  /\ pc \in {"start", "encoded"}
  /\ LET r == get_length(buffer, 0, len) IN
       /\ len' = r.len
       /\ get_ret' = r.ret
  /\ pc' = "decoded"
  /\ UNCHANGED <<buffer, length, set_ret>>

--------------------------------------------------------------------------
(* part_000: do_store_cert *)

\* First bytes of the object handed to do_store_cert: 0x70 is the
\* certificate tag, the others are not.
TagSamples == {0, 48, 112}

\* What d2i_X509 may hand back: NULL, or a certificate.
D2iResults == {"NULL", "X509"}

\* The object read from the card (its tag and the three bytes after it) and
\* the automatic cert_len, which the function declares without a value.
InitStore ==
  /\ pc = "off" /\ buffer = <<>> /\ length = -1 /\ set_ret = -1
  /\ len = 0 /\ get_ret = -1
  /\ pkcs = [pc |-> "off"]
  /\ call = [fn |-> "off"] /\ signinput = [built |-> FALSE]
  /\ comp = [calls |-> -1]
  /\ \E tag \in TagSamples, b0 \in Byte, b1 \in ByteSamples, b2 \in ByteSamples,
       garbage \in GarbageInts :
      store = [pc |-> "start",
               data |-> [i \in 0..3 |-> IF i = 0 THEN tag ELSE IF i = 1 THEN b0
                                         ELSE IF i = 2 THEN b1 ELSE b2],
               cert_len |-> garbage,
               get_ret |-> -1,
               p |-> 0,
               d2i_called |-> FALSE,
               d2i_len |-> 0,
               rv |-> "none"]

\* CK_RV do_store_cert(CK_BYTE_PTR data, CK_ULONG len, X509 **cert).
\* d2i_X509 is the library's: either of its results may come back.
do_store_cert ==
  /\ store.pc = "start"
  /\ IF store.data[0] # 112
       THEN store' = [store EXCEPT !.pc = "done", !.p = 1,
                                   !.rv = "CKR_FUNCTION_FAILED"]
       ELSE LET r == get_length(store.data, 1, store.cert_len) IN
            \E cert \in D2iResults :
              store' = [store EXCEPT !.pc = "done",
                                     !.p = 1 + r.ret,
                                     !.get_ret = r.ret,
                                     !.cert_len = r.len,
                                     !.d2i_called = TRUE,
                                     !.d2i_len = r.len,
                                     !.rv = IF cert = "NULL"
                                              THEN "CKR_FUNCTION_FAILED"
                                              ELSE "CKR_OK"]

--------------------------------------------------------------------------
(* part_000: do_pkcs_t1 *)

InLenSamples == {0, 20, 35, 51, 117, 118, 128}
OutLenSamples == {0, 64, 127, 128, 255, 256}
KeyLenSamples == {128, 256}

InitPkcs ==
  /\ pc = "off" /\ buffer = <<>> /\ length = -1 /\ set_ret = -1
  /\ len = 0 /\ get_ret = -1
  /\ store = [pc |-> "off"]
  /\ call = [fn |-> "off"] /\ signinput = [built |-> FALSE]
  /\ comp = [calls |-> -1]
  /\ \E in_len \in InLenSamples, out_len \in OutLenSamples,
        key_len \in KeyLenSamples :
      pkcs = [pc |-> "start", in_len |-> in_len, out_len |-> out_len,
              key_len |-> key_len, padded |-> FALSE, rv |-> "none"]

\* CK_RV do_pkcs_t1(in, in_len, out, out_len, key_len).  The statement under
\* `if (out_len < key_len)` is the expression CKR_BUFFER_TOO_SMALL, not a
\* return: both branches go on to RSA_padding_add_PKCS1_type_1, which is the
\* library's and may return 0 or not.
do_pkcs_t1 ==
  /\ pkcs.pc = "start"
  /\ LET checked == IF pkcs.out_len < pkcs.key_len
                      THEN pkcs   \* `CKR_BUFFER_TOO_SMALL;` has no effect
                      ELSE pkcs
     IN \E padding \in {0, 1} :
          pkcs' = [checked EXCEPT !.pc = "done",
                                  !.padded = TRUE,
                                  !.rv = IF padding = 0
                                           THEN "CKR_FUNCTION_FAILED"
                                           ELSE "CKR_OK"]

--------------------------------------------------------------------------
(* util.c: the selector tables.  An enumerator, a card-protocol constant   *)
(* (ykpiv.h) and a library constant (OpenSSL) is written as its C          *)
(* identifier; the literal 0 as "0" and the null pointer as "NULL".  A     *)
(* selector that is no enumerator of its enum is "out_of_range".           *)

SlotArgs ==
  <<"slot_arg_9a", "slot_arg_9c", "slot_arg_9d", "slot_arg_9e",
    "slot_arg_82", "slot_arg_83", "slot_arg_84", "slot_arg_85",
    "slot_arg_86", "slot_arg_87", "slot_arg_88", "slot_arg_89",
    "slot_arg_8a", "slot_arg_8b", "slot_arg_8c", "slot_arg_8d",
    "slot_arg_8e", "slot_arg_8f", "slot_arg_90", "slot_arg_91",
    "slot_arg_92", "slot_arg_93", "slot_arg_94", "slot_arg_95">>
HashArgs ==
  <<"hash_arg_SHA1", "hash_arg_SHA256", "hash_arg_SHA384", "hash_arg_SHA512">>
AlgorithmArgs ==
  <<"algorithm_arg_RSA1024", "algorithm_arg_RSA2048",
    "algorithm_arg_ECCP256", "algorithm_arg_ECCP384">>
PinPolicyArgs ==
  <<"pin_policy_arg_never", "pin_policy_arg_once", "pin_policy_arg_always">>
TouchPolicyArgs == <<"touch_policy_arg_never", "touch_policy_arg_always">>

Range(f) == {f[i] : i \in DOMAIN f}

SlotInputs == Range(SlotArgs) \cup {"slot__NULL", "out_of_range"}
HashInputs == Range(HashArgs) \cup {"hash__NULL", "out_of_range"}
AlgorithmInputs == Range(AlgorithmArgs) \cup {"algorithm__NULL", "out_of_range"}
PinPolicyInputs == Range(PinPolicyArgs) \cup {"pin_policy__NULL", "out_of_range"}
TouchPolicyInputs ==
  Range(TouchPolicyArgs) \cup {"touch_policy__NULL", "out_of_range"}

\* The unsigned char handed to get_hashnid: what get_piv_algorithm returns,
\* and a card algorithm that is none of the four.
PivAlgorithmInputs ==
  {"YKPIV_ALGO_RSA1024", "YKPIV_ALGO_RSA2048", "YKPIV_ALGO_ECCP256",
   "YKPIV_ALGO_ECCP384", "0", "YKPIV_ALGO_3DES"}

\* int get_object_id(enum enum_slot slot)
get_object_id(slot) ==
  CASE slot = "slot_arg_9a" -> "YKPIV_OBJ_AUTHENTICATION"
    [] slot = "slot_arg_9c" -> "YKPIV_OBJ_SIGNATURE"
    [] slot = "slot_arg_9d" -> "YKPIV_OBJ_KEY_MANAGEMENT"
    [] slot = "slot_arg_9e" -> "YKPIV_OBJ_CARD_AUTH"
    [] slot = "slot_arg_82" -> "YKPIV_OBJ_RETIRED1"
    [] slot = "slot_arg_83" -> "YKPIV_OBJ_RETIRED2"
    [] slot = "slot_arg_84" -> "YKPIV_OBJ_RETIRED3"
    [] slot = "slot_arg_85" -> "YKPIV_OBJ_RETIRED4"
    [] slot = "slot_arg_86" -> "YKPIV_OBJ_RETIRED5"
    [] slot = "slot_arg_87" -> "YKPIV_OBJ_RETIRED6"
    [] slot = "slot_arg_88" -> "YKPIV_OBJ_RETIRED7"
    [] slot = "slot_arg_89" -> "YKPIV_OBJ_RETIRED8"
    [] slot = "slot_arg_8a" -> "YKPIV_OBJ_RETIRED9"
    [] slot = "slot_arg_8b" -> "YKPIV_OBJ_RETIRED10"
    [] slot = "slot_arg_8c" -> "YKPIV_OBJ_RETIRED11"
    [] slot = "slot_arg_8d" -> "YKPIV_OBJ_RETIRED12"
    [] slot = "slot_arg_8e" -> "YKPIV_OBJ_RETIRED13"
    [] slot = "slot_arg_8f" -> "YKPIV_OBJ_RETIRED14"
    [] slot = "slot_arg_90" -> "YKPIV_OBJ_RETIRED15"
    [] slot = "slot_arg_91" -> "YKPIV_OBJ_RETIRED16"
    [] slot = "slot_arg_92" -> "YKPIV_OBJ_RETIRED17"
    [] slot = "slot_arg_93" -> "YKPIV_OBJ_RETIRED18"
    [] slot = "slot_arg_94" -> "YKPIV_OBJ_RETIRED19"
    [] slot = "slot_arg_95" -> "YKPIV_OBJ_RETIRED20"
    [] OTHER -> "0"

\* get_hashnid without the switch on the algorithm: the RSA table for all.
get_hashnid_any_algorithm(hash, algorithm) ==
  CASE hash = "hash_arg_SHA1" -> "NID_sha1WithRSAEncryption"
    [] hash = "hash_arg_SHA256" -> "NID_sha256WithRSAEncryption"
    [] hash = "hash_arg_SHA384" -> "NID_sha384WithRSAEncryption"
    [] hash = "hash_arg_SHA512" -> "NID_sha512WithRSAEncryption"
    [] OTHER -> "0"

\* int get_hashnid(enum enum_hash hash, unsigned char algorithm)
get_hashnid(hash, algorithm) ==
  CASE algorithm \in {"YKPIV_ALGO_RSA1024", "YKPIV_ALGO_RSA2048"} ->
         (CASE hash = "hash_arg_SHA1" -> "NID_sha1WithRSAEncryption"
            [] hash = "hash_arg_SHA256" -> "NID_sha256WithRSAEncryption"
            [] hash = "hash_arg_SHA384" -> "NID_sha384WithRSAEncryption"
            [] hash = "hash_arg_SHA512" -> "NID_sha512WithRSAEncryption"
            [] OTHER -> "0")
    [] algorithm \in {"YKPIV_ALGO_ECCP256", "YKPIV_ALGO_ECCP384"} ->
         (CASE hash = "hash_arg_SHA1" -> "NID_ecdsa_with_SHA1"
            [] hash = "hash_arg_SHA256" -> "NID_ecdsa_with_SHA256"
            [] hash = "hash_arg_SHA384" -> "NID_ecdsa_with_SHA384"
            [] hash = "hash_arg_SHA512" -> "NID_ecdsa_with_SHA512"
            [] OTHER -> "0")
    [] OTHER -> "0"

\* unsigned char get_piv_algorithm(enum enum_algorithm algorithm)
get_piv_algorithm(algorithm) ==
  CASE algorithm = "algorithm_arg_RSA2048" -> "YKPIV_ALGO_RSA2048"
    [] algorithm = "algorithm_arg_RSA1024" -> "YKPIV_ALGO_RSA1024"
    [] algorithm = "algorithm_arg_ECCP256" -> "YKPIV_ALGO_ECCP256"
    [] algorithm = "algorithm_arg_ECCP384" -> "YKPIV_ALGO_ECCP384"
    [] OTHER -> "0"

\* unsigned char get_pin_policy(enum enum_pin_policy policy)
get_pin_policy(policy) ==
  CASE policy = "pin_policy_arg_never" -> "YKPIV_PINPOLICY_NEVER"
    [] policy = "pin_policy_arg_once" -> "YKPIV_PINPOLICY_ONCE"
    [] policy = "pin_policy_arg_always" -> "YKPIV_PINPOLICY_ALWAYS"
    [] OTHER -> "0"

\* unsigned char get_touch_policy(enum enum_touch_policy policy)
get_touch_policy(policy) ==
  CASE policy = "touch_policy_arg_never" -> "YKPIV_TOUCHPOLICY_NEVER"
    [] policy = "touch_policy_arg_always" -> "YKPIV_TOUCHPOLICY_ALWAYS"
    [] OTHER -> "0"

--------------------------------------------------------------------------
(* util.c: the static DigestInfo headers and get_hash *)

sha1oid ==
  <<48, 33, 48, 9, 6, 5, 43, 14, 3, 2, 26, 5, 0,
    4, 20>>

sha256oid ==
  <<48, 49, 48, 13, 6, 9, 96, 134, 72, 1, 101, 3, 4,
    2, 1, 5, 0, 4, 32>>

sha384oid ==
  <<48, 65, 48, 13, 6, 9, 96, 134, 72, 1, 101, 3, 4,
    2, 2, 5, 0, 4, 48>>

sha512oid ==
  <<48, 81, 48, 13, 6, 9, 96, 134, 72, 1, 101, 3, 4,
    2, 3, 5, 0, 4, 64>>

\* What the caller's oid and oid_len hold when get_hash did not set them.
OidUnset == [set |-> FALSE, oid |-> <<>>, oid_len |-> 0]

OidOf(table) == [set |-> TRUE, oid |-> table, oid_len |-> Len(table)]

\* get_hash reporting one byte less than the header holds.
get_hash_short_len(hash, want_oid) ==
  CASE hash = "hash_arg_SHA1" ->
         [md |-> "EVP_sha1()",
          out |-> IF want_oid THEN [OidOf(sha1oid) EXCEPT !.oid_len = @ - 1]
                              ELSE OidUnset]
    [] hash = "hash_arg_SHA256" ->
         [md |-> "EVP_sha256()",
          out |-> IF want_oid THEN [OidOf(sha256oid) EXCEPT !.oid_len = @ - 1]
                              ELSE OidUnset]
    [] hash = "hash_arg_SHA384" ->
         [md |-> "EVP_sha384()",
          out |-> IF want_oid THEN [OidOf(sha384oid) EXCEPT !.oid_len = @ - 1]
                              ELSE OidUnset]
    [] hash = "hash_arg_SHA512" ->
         [md |-> "EVP_sha512()",
          out |-> IF want_oid THEN [OidOf(sha512oid) EXCEPT !.oid_len = @ - 1]
                              ELSE OidUnset]
    [] OTHER -> [md |-> "NULL", out |-> OidUnset]

\* get_hash handing out the SHA-512 header for SHA-384.
get_hash_384_as_512(hash, want_oid) ==
  CASE hash = "hash_arg_SHA1" ->
         [md |-> "EVP_sha1()",
          out |-> IF want_oid THEN OidOf(sha1oid) ELSE OidUnset]
    [] hash = "hash_arg_SHA256" ->
         [md |-> "EVP_sha256()",
          out |-> IF want_oid THEN OidOf(sha256oid) ELSE OidUnset]
    [] hash = "hash_arg_SHA384" ->
         [md |-> "EVP_sha384()",
          out |-> IF want_oid THEN OidOf(sha512oid) ELSE OidUnset]
    [] hash = "hash_arg_SHA512" ->
         [md |-> "EVP_sha512()",
          out |-> IF want_oid THEN OidOf(sha512oid) ELSE OidUnset]
    [] OTHER -> [md |-> "NULL", out |-> OidUnset]

\* const EVP_MD *get_hash(enum enum_hash hash, const unsigned char **oid,
\* size_t *oid_len); want_oid is `oid != NULL`.
get_hash(hash, want_oid) ==
  CASE hash = "hash_arg_SHA1" ->
         [md |-> "EVP_sha1()",
          out |-> IF want_oid THEN OidOf(sha1oid) ELSE OidUnset]
    [] hash = "hash_arg_SHA256" ->
         [md |-> "EVP_sha256()",
          out |-> IF want_oid THEN OidOf(sha256oid) ELSE OidUnset]
    [] hash = "hash_arg_SHA384" ->
         [md |-> "EVP_sha384()",
          out |-> IF want_oid THEN OidOf(sha384oid) ELSE OidUnset]
    [] hash = "hash_arg_SHA512" ->
         [md |-> "EVP_sha512()",
          out |-> IF want_oid THEN OidOf(sha512oid) ELSE OidUnset]
    [] OTHER -> [md |-> "NULL", out |-> OidUnset]

--------------------------------------------------------------------------
(* util.c: prepare_rsa_signature, and the caller's DigestInfo assembly *)

\* The digest size of each hash kind.
DigestSize(hash) ==
  CASE hash \in {"hash_arg_SHA1", "NID_sha1"} -> 20
    [] hash \in {"hash_arg_SHA256", "NID_sha256"} -> 32
    [] hash \in {"hash_arg_SHA384", "NID_sha384"} -> 48
    [] hash \in {"hash_arg_SHA512", "NID_sha512"} -> 64

\* Digests handed in: all zero bytes, or the bytes 1, 2, 3, ...
DigestPatterns == {"zero", "count"}
DigestBytes(n, pattern) == [i \in 1..n |-> IF pattern = "zero" THEN 0 ELSE i]

\* Lengths of the input handed to prepare_rsa_signature.
InputLenSamples == {0, 19, 20, 21, 32, 48, 64}

NidInputs == {"NID_sha1", "NID_sha256", "NID_sha384", "NID_sha512"}

\* The DigestInfo a caller assembles: the oid_len header bytes that get_hash
\* handed out, then the digest.
DigestInfo(oid, oid_len, digest) == SubSeq(oid, 1, oid_len) \o digest

\* bool prepare_rsa_signature(in, in_len, out, out_len, nid): fills an
\* X509_SIG with the algorithm of nid, a NULL parameter and in_len bytes of
\* in, has i2d_X509_SIG encode it into out, and returns true.  No statement
\* compares in_len with anything.
prepare_rsa_signature(in, in_len, nid) ==
  [ret |-> TRUE,
   digestInfo |-> [algorithm |-> nid,
                   parameter |-> "V_ASN1_NULL",
                   digest |-> [data |-> SubSeq(in, 1, in_len),
                               length |-> in_len]],
   encoded |-> TRUE]

--------------------------------------------------------------------------
(* The table functions' harness: any call, in any order. *)

InitTables ==
  /\ pc = "off" /\ buffer = <<>> /\ length = -1 /\ set_ret = -1
  /\ len = 0 /\ get_ret = -1
  /\ store = [pc |-> "off"]
  /\ pkcs = [pc |-> "off"]
  /\ call = [fn |-> "none"]
  /\ signinput = [built |-> FALSE]
  /\ comp = [calls |-> -1]

GetObjectId ==
  /\ \E slot \in SlotInputs :
       call' = [fn |-> "get_object_id", slot |-> slot,
                result |-> get_object_id(slot)]
  /\ UNCHANGED signinput

GetPivAlgorithm ==
  /\ \E algorithm \in AlgorithmInputs :
       call' = [fn |-> "get_piv_algorithm", algorithm |-> algorithm,
                result |-> get_piv_algorithm(algorithm)]
  /\ UNCHANGED signinput

GetPinPolicy ==
  /\ \E policy \in PinPolicyInputs :
       call' = [fn |-> "get_pin_policy", policy |-> policy,
                result |-> get_pin_policy(policy)]
  /\ UNCHANGED signinput

GetTouchPolicy ==
  /\ \E policy \in TouchPolicyInputs :
       call' = [fn |-> "get_touch_policy", policy |-> policy,
                result |-> get_touch_policy(policy)]
  /\ UNCHANGED signinput

GetHashnid ==
  /\ \E hash \in HashInputs, algorithm \in PivAlgorithmInputs :
       call' = [fn |-> "get_hashnid", hash |-> hash, algorithm |-> algorithm,
                result |-> get_hashnid(hash, algorithm)]
  /\ UNCHANGED signinput

GetHash ==
  /\ \E hash \in HashInputs, want_oid \in BOOLEAN :
       LET r == get_hash(hash, want_oid) IN
         call' = [fn |-> "get_hash", hash |-> hash, want_oid |-> want_oid,
                  result |-> r.md, out |-> r.out]
  /\ UNCHANGED signinput

\* The caller of get_hash puts the header and its digest together.
BuildDigestInfo ==
  /\ call.fn = "get_hash"
  /\ call.result # "NULL"
  /\ call.out.set
  /\ \E pattern \in DigestPatterns :
       LET digest == DigestBytes(DigestSize(call.hash), pattern) IN
         signinput' = [built |-> TRUE, hash |-> call.hash, digest |-> digest,
                       out |-> DigestInfo(call.out.oid, call.out.oid_len, digest)]
  /\ UNCHANGED call

PrepareRsaSignature ==
  /\ \E nid \in NidInputs, in_len \in InputLenSamples, pattern \in DigestPatterns :
       LET r == prepare_rsa_signature(DigestBytes(in_len, pattern), in_len, nid) IN
         call' = [fn |-> "prepare_rsa_signature", nid |-> nid, in_len |-> in_len,
                  result |-> r.ret, digestInfo |-> r.digestInfo,
                  encoded |-> r.encoded]
  /\ UNCHANGED signinput

--------------------------------------------------------------------------
(* util.c: set_component_with_len *)

\* How many calls are made on one cursor.
MaxCalls == 2

\* The numbers handed in as bn: 0, 1, 2 and 3 significant bytes.
BnSamples == {0, 255, 256, 1193046}

\* The widths asked for: they take the 1-, 2- and 3-byte length prefix.
ElementLens == {0, 1, 3, 128, 255}

MaxOf(S) == CHOOSE x \in S : \A y \in S : y <= x

\* The caller's buffer holds the widest component MaxCalls times.
CompBufLen == MaxCalls * (3 + MaxOf(ElementLens))

\* BN_num_bytes: the significant bytes of bn, none for 0.
RECURSIVE BN_num_bytes(_)
BN_num_bytes(bn) == IF bn = 0 THEN 0 ELSE 1 + BN_num_bytes(bn \div 256)

\* BN_bn2bin: the bytes of bn, most significant first, stored at offset to
\* of buf.
RECURSIVE BN_bn2bin(_, _, _)
BN_bn2bin(buf, to, bn) ==
  IF bn = 0 THEN buf
  ELSE [BN_bn2bin(buf, to, bn \div 256)
          EXCEPT ![to + BN_num_bytes(bn) - 1] = bn % 256]

\* memset(s, c, n) on offsets of buf.
memset(buf, s, c, n) ==
  [i \in DOMAIN buf |-> IF i >= s /\ i < s + n THEN c ELSE buf[i]]

\* set_component_with_len comparing the widths before it writes anything.
set_component_check_first(buf, in_ptr, bn, element_len) ==
  LET real_len == BN_num_bytes(bn)
      r == set_length(buf, in_ptr, element_len)
      p1 == in_ptr + r.ret
      p2 == p1 + (element_len - real_len)
  IN IF real_len > element_len
       THEN [ret |-> FALSE, buf |-> buf, in_ptr |-> in_ptr]
       ELSE [ret |-> TRUE,
             buf |-> BN_bn2bin(memset(r.buf, p1, 0, element_len - real_len),
                               p2, bn),
             in_ptr |-> p2 + real_len]

\* bool set_component_with_len(unsigned char **in_ptr, const BIGNUM *bn,
\* int element_len), *in_ptr being the offset in_ptr of buf.
set_component_with_len(buf, in_ptr, bn, element_len) ==
  LET real_len == BN_num_bytes(bn)
      r == set_length(buf, in_ptr, element_len)
      p1 == in_ptr + r.ret
      p2 == p1 + (element_len - real_len)
  IN IF real_len > element_len
       THEN [ret |-> FALSE, buf |-> r.buf, in_ptr |-> p1]
       ELSE [ret |-> TRUE,
             buf |-> BN_bn2bin(memset(r.buf, p1, 0, element_len - real_len),
                               p2, bn),
             in_ptr |-> p2 + real_len]

InitComponent ==
  /\ pc = "off" /\ buffer = <<>> /\ length = -1 /\ set_ret = -1
  /\ len = 0 /\ get_ret = -1
  /\ store = [pc |-> "off"]
  /\ pkcs = [pc |-> "off"]
  /\ call = [fn |-> "off"] /\ signinput = [built |-> FALSE]
  /\ \E fill \in FillBytes :
       comp = [buf |-> FilledBuffer(CompBufLen, fill), in_ptr |-> 0,
               calls |-> 0, bn |-> 0, element_len |-> 0, ret |-> FALSE]

SetComponentWithLen ==
  /\ comp.calls < MaxCalls
  /\ \E bn \in BnSamples, element_len \in ElementLens :
       LET r == set_component_with_len(comp.buf, comp.in_ptr, bn, element_len) IN
         comp' = [buf |-> r.buf, in_ptr |-> r.in_ptr, calls |-> comp.calls + 1,
                  bn |-> bn, element_len |-> element_len, ret |-> r.ret]

--------------------------------------------------------------------------
(* Specifications: one per group of functions, the other groups at rest. *)

vars == <<codecVars, store, pkcs, call, signinput, comp>>

NextCodec ==
  \/ SetLength /\ UNCHANGED <<store, pkcs, call, signinput, comp>>
  \/ GetLength /\ UNCHANGED <<store, pkcs, call, signinput, comp>>
NextDecode == GetLength /\ UNCHANGED <<store, pkcs, call, signinput, comp>>
NextStore == do_store_cert /\ UNCHANGED <<codecVars, pkcs, call, signinput, comp>>
NextPkcs == do_pkcs_t1 /\ UNCHANGED <<codecVars, store, call, signinput, comp>>
NextTables ==
  \/ GetObjectId /\ UNCHANGED <<codecVars, store, pkcs, comp>>
  \/ GetPivAlgorithm /\ UNCHANGED <<codecVars, store, pkcs, comp>>
  \/ GetPinPolicy /\ UNCHANGED <<codecVars, store, pkcs, comp>>
  \/ GetTouchPolicy /\ UNCHANGED <<codecVars, store, pkcs, comp>>
  \/ GetHashnid /\ UNCHANGED <<codecVars, store, pkcs, comp>>
  \/ GetHash /\ UNCHANGED <<codecVars, store, pkcs, comp>>
  \/ BuildDigestInfo /\ UNCHANGED <<codecVars, store, pkcs, comp>>
  \/ PrepareRsaSignature /\ UNCHANGED <<codecVars, store, pkcs, comp>>

NextComponent ==
  SetComponentWithLen /\ UNCHANGED <<codecVars, store, pkcs, call, signinput>>

SpecCodec == InitCodec /\ [][NextCodec]_vars
SpecDecode == InitDecode /\ [][NextDecode]_vars
SpecStore == InitStore /\ [][NextStore]_vars
SpecPkcs == InitPkcs /\ [][NextPkcs]_vars
SpecTables == InitTables /\ [][NextTables]_vars
SpecComponent == InitComponent /\ [][NextComponent]_vars

--------------------------------------------------------------------------
(* Claims about the length codec *)

\* The number of bytes the length prefix of l takes, by the encode table.
PrefixSize(l) == IF l <= 127 THEN 1 ELSE IF l <= 254 THEN 2 ELSE 3

\* The bytes of the length prefix of l, by the encode table.
PrefixBytes(l) ==
  IF l < 128 THEN <<l>>
  ELSE IF l < 255 THEN <<129, l>>
  ELSE <<130, (l \div 256) % 256, l % 256>>

\* C1: for every length L in [0, 0xFFFF], get_length on the bytes that
\* set_length(buffer, L) wrote yields *len = L and returns the byte count
\* set_length returned: 1 for L in [0, 0x7F], 2 for [0x80, 0xFE], 3 for
\* [0xFF, 0xFFFF].
C1_RoundTrip ==
  (pc = "decoded" /\ length >= 0 /\ length <= TwoByteMax) =>
    /\ len = length
    /\ get_ret = set_ret
    /\ set_ret = PrefixSize(length)

\* The length 0xFF went through the 3-byte form and came back.
C1_Witness ==
  pc = "decoded" /\ length = 255 /\ set_ret = 3 /\ get_ret = 3 /\ len = 255

\* C2: for every length L >= 0, set_length writes exactly the bytes of the
\* encode table at the start of the buffer ([L] below 0x80, [0x81, L] below
\* 0xFF, [0x82, high, low] from 0xFF on, so 0xFF becomes [0x82, 0x00, 0xFF])
\* and leaves every other byte of the buffer as it was.
C2_SetLengthBytes ==
  [][(pc = "start" /\ pc' = "encoded") =>
       LET want == PrefixBytes(length') IN
         /\ set_ret' = Len(want)
         /\ \A i \in 0..(CodecBufLen - 1) :
              buffer'[i] = IF i < Len(want) THEN want[i + 1] ELSE buffer[i]]_vars

\* 0xFF was encoded as [0x82, 0x00, 0xFF], the byte after it untouched.
C2_Witness ==
  /\ pc = "encoded" /\ length = 255 /\ set_ret = 3
  /\ buffer[0] = 130 /\ buffer[1] = 0 /\ buffer[2] = 255
  /\ buffer[3] \in FillBytes

\* C3: for every 3-byte input b, get_length follows the decode table:
\* b[0] < 0x81 gives *len = b[0] and 1; otherwise low 7 bits 1 gives
\* *len = b[1] and 2; low 7 bits 2 gives *len = b[1]*256 + b[2] and 3; every
\* other first byte gives the failure sentinel 0.
C3_DecodeTable ==
  (pc = "decoded") =>
    IF buffer[0] < 129
      THEN get_ret = 1 /\ len = buffer[0]
      ELSE IF buffer[0] = 129
        THEN get_ret = 2 /\ len = buffer[1]
        ELSE IF buffer[0] = 130
          THEN get_ret = 3 /\ len = buffer[1] * 256 + buffer[2]
          ELSE buffer[0] % 128 > 2 /\ get_ret = 0

\* The first byte 0x80 was decoded as the length 128 in one byte.
C3_Witness ==
  pc = "decoded" /\ buffer[0] = 128 /\ get_ret = 1 /\ len = 128

--------------------------------------------------------------------------
(* Claims about do_store_cert and do_pkcs_t1 *)

\* C4: whenever get_length returns 0 on the length field that follows the
\* 0x70 tag, do_store_cert returns CKR_FUNCTION_FAILED without calling
\* d2i_X509.
C4_DecodeFailureIsFatal ==
  (store.pc = "done" /\ store.get_ret = 0) =>
    (store.rv = "CKR_FUNCTION_FAILED" /\ ~store.d2i_called)

\* C5: whenever out_len < key_len, do_pkcs_t1 returns a buffer-too-small
\* status and does not call the padding primitive.
C5_SmallBufferRejected ==
  (pkcs.pc = "done" /\ pkcs.out_len < pkcs.key_len) =>
    (pkcs.rv = "CKR_BUFFER_TOO_SMALL" /\ ~pkcs.padded)

--------------------------------------------------------------------------
(* Claims about the DigestInfo headers, the builder and the tables *)

Index(seq, x) == CHOOSE i \in DOMAIN seq : seq[i] = x

\* The SHA-256 DigestInfo header as the specification prints it.
Sha256Header ==
  <<48, 49, 48, 13, 6, 9, 96, 134, 72, 1, 101, 3, 4, 2, 1, 5, 0, 4, 32>>

ZeroDigest32 == [i \in 1..32 |-> 0]

C7_MismatchRejected ==
  (call.fn = "prepare_rsa_signature" /\ call.in_len # DigestSize(call.nid)) =>
    (call.result = FALSE /\ ~call.encoded)

\* The constants the claim pairs with the supported selectors, in the order
\* of SlotArgs, HashArgs, AlgorithmArgs, PinPolicyArgs, TouchPolicyArgs.
SlotObjects ==
  <<"YKPIV_OBJ_AUTHENTICATION", "YKPIV_OBJ_SIGNATURE",
    "YKPIV_OBJ_KEY_MANAGEMENT", "YKPIV_OBJ_CARD_AUTH",
    "YKPIV_OBJ_RETIRED1", "YKPIV_OBJ_RETIRED2", "YKPIV_OBJ_RETIRED3",
    "YKPIV_OBJ_RETIRED4", "YKPIV_OBJ_RETIRED5", "YKPIV_OBJ_RETIRED6",
    "YKPIV_OBJ_RETIRED7", "YKPIV_OBJ_RETIRED8", "YKPIV_OBJ_RETIRED9",
    "YKPIV_OBJ_RETIRED10", "YKPIV_OBJ_RETIRED11", "YKPIV_OBJ_RETIRED12",
    "YKPIV_OBJ_RETIRED13", "YKPIV_OBJ_RETIRED14", "YKPIV_OBJ_RETIRED15",
    "YKPIV_OBJ_RETIRED16", "YKPIV_OBJ_RETIRED17", "YKPIV_OBJ_RETIRED18",
    "YKPIV_OBJ_RETIRED19", "YKPIV_OBJ_RETIRED20">>
HashDigests == <<"EVP_sha1()", "EVP_sha256()", "EVP_sha384()", "EVP_sha512()">>
RsaNids ==
  <<"NID_sha1WithRSAEncryption", "NID_sha256WithRSAEncryption",
    "NID_sha384WithRSAEncryption", "NID_sha512WithRSAEncryption">>
EcdsaNids ==
  <<"NID_ecdsa_with_SHA1", "NID_ecdsa_with_SHA256",
    "NID_ecdsa_with_SHA384", "NID_ecdsa_with_SHA512">>
PivAlgorithms ==
  <<"YKPIV_ALGO_RSA1024", "YKPIV_ALGO_RSA2048",
    "YKPIV_ALGO_ECCP256", "YKPIV_ALGO_ECCP384">>
PinPolicies ==
  <<"YKPIV_PINPOLICY_NEVER", "YKPIV_PINPOLICY_ONCE", "YKPIV_PINPOLICY_ALWAYS">>
TouchPolicies == <<"YKPIV_TOUCHPOLICY_NEVER", "YKPIV_TOUCHPOLICY_ALWAYS">>

\* The constant at the selector's place if the selector is supported, the
\* sentinel otherwise.
Paired(args, constants, arg, sentinel) ==
  IF arg \in Range(args) THEN constants[Index(args, arg)] ELSE sentinel

\* C8: every selector outside the supported enumeration (each enum's _NULL
\* member included) yields the zero sentinel: get_object_id,
\* get_piv_algorithm, get_pin_policy and get_touch_policy return 0, get_hash
\* returns NULL, and get_hashnid returns 0 whenever the algorithm is none of
\* RSA1024/RSA2048/ECCP256/ECCP384 or the hash none of SHA1/256/384/512; for
\* every supported selector the result is its constant, which is no sentinel.
C8_UnsupportedSelectorSentinel ==
  /\ call.fn = "get_object_id" =>
       call.result = Paired(SlotArgs, SlotObjects, call.slot, "0")
  /\ call.fn = "get_piv_algorithm" =>
       call.result = Paired(AlgorithmArgs, PivAlgorithms, call.algorithm, "0")
  /\ call.fn = "get_pin_policy" =>
       call.result = Paired(PinPolicyArgs, PinPolicies, call.policy, "0")
  /\ call.fn = "get_touch_policy" =>
       call.result = Paired(TouchPolicyArgs, TouchPolicies, call.policy, "0")
  /\ call.fn = "get_hash" =>
       call.result = Paired(HashArgs, HashDigests, call.hash, "NULL")
  /\ call.fn = "get_hashnid" =>
       call.result =
         IF call.algorithm \in {"YKPIV_ALGO_RSA1024", "YKPIV_ALGO_RSA2048"}
           THEN Paired(HashArgs, RsaNids, call.hash, "0")
           ELSE IF call.algorithm \in {"YKPIV_ALGO_ECCP256", "YKPIV_ALGO_ECCP384"}
             THEN Paired(HashArgs, EcdsaNids, call.hash, "0")
             ELSE "0"
  /\ call.fn \in {"get_object_id", "get_piv_algorithm", "get_pin_policy",
                  "get_touch_policy", "get_hashnid"} =>
       (call.result = "0") =
         CASE call.fn = "get_object_id" -> call.slot \notin Range(SlotArgs)
           [] call.fn = "get_piv_algorithm" ->
                call.algorithm \notin Range(AlgorithmArgs)
           [] call.fn = "get_pin_policy" -> call.policy \notin Range(PinPolicyArgs)
           [] call.fn = "get_touch_policy" ->
                call.policy \notin Range(TouchPolicyArgs)
           [] call.fn = "get_hashnid" ->
                \/ call.algorithm \notin Range(PivAlgorithms)
                \/ call.hash \notin Range(HashArgs)

\* get_hashnid was asked for a supported hash with an algorithm that is none
\* of the four, and returned 0.
C8_Witness ==
  /\ call.fn = "get_hashnid" /\ call.hash = "hash_arg_SHA256"
  /\ call.algorithm = "YKPIV_ALGO_3DES" /\ call.result = "0"

\* C9: each of the four headers get_hash hands out is consistent with its
\* hash kind's digest size D: the header is 15 bytes long for SHA-1 and 19
\* for the others, its last byte is D, its second byte is the header length
\* - 2 + D, and its fourth byte is the header length - 6.
C9_HeaderSelfConsistent ==
  (call.fn = "get_hash" /\ call.out.set) =>
    LET h == call.out.oid
        n == call.out.oid_len
        D == DigestSize(call.hash)
    IN /\ n = Len(h)
       /\ n = IF call.hash = "hash_arg_SHA1" THEN 15 ELSE 19
       /\ h[n] = D
       /\ h[2] = n - 2 + D
       /\ h[4] = n - 6

\* get_hash handed out the SHA-384 header.
C9_Witness ==
  /\ call.fn = "get_hash" /\ call.hash = "hash_arg_SHA384" /\ call.out.set
  /\ call.out.oid_len = 19 /\ call.out.oid[19] = 48 /\ call.out.oid[2] = 65

--------------------------------------------------------------------------
(* Claims about set_component_with_len *)

\* The byte of the n-byte big-endian form of v at place i (0 the first).
BigEndianByte(v, n, i) == (v \div (256 ^ (n - 1 - i))) % 256

\* The least n with v < 256^n.
RECURSIVE SignificantBytes(_, _)
SignificantBytes(v, n) == IF v < 256 ^ n THEN n ELSE SignificantBytes(v, n + 1)

\* C10: in any sequence of set_component_with_len calls on one cursor, a
\* call returns true exactly when the number's byte count is at most
\* element_len; a call that returns true advances the cursor by the prefix
\* length + element_len and writes the length prefix of element_len, then
\* element_len - real_len zero bytes, then the real_len big-endian bytes of
\* the number; a call that returns false writes no value bytes, yet has
\* written the length prefix and advanced the cursor by the prefix length.
\* No other byte of the buffer changes.
C10_ComponentFrame ==
  [][(comp'.calls = comp.calls + 1) =>
       LET P == comp.in_ptr
           e == comp'.element_len
           pre == PrefixBytes(e)
           k == Len(pre)
           real == SignificantBytes(comp'.bn, 0)
           written == IF comp'.ret THEN k + e ELSE k
       IN /\ comp'.ret = (real <= e)
          /\ comp'.in_ptr = P + written
          /\ \A i \in DOMAIN comp.buf :
               comp'.buf[i] =
                 IF i < P \/ i >= P + written THEN comp.buf[i]
                 ELSE IF i < P + k THEN pre[i - P + 1]
                 ELSE IF i < P + k + (e - real) THEN 0
                 ELSE BigEndianByte(comp'.bn, real, i - (P + k + (e - real)))]_vars

\* A call with a 1-byte width and a 2-byte number returned false after
\* writing the prefix 01, and the next call, width 3 and the number 255,
\* wrote 03 00 00 FF behind it.
C10_Witness ==
  /\ comp.calls = 2 /\ comp.ret /\ comp.element_len = 3 /\ comp.bn = 255
  /\ comp.in_ptr = 5
  /\ comp.buf[0] = 1 /\ comp.buf[1] = 3 /\ comp.buf[2] = 0
  /\ comp.buf[3] = 0 /\ comp.buf[4] = 255

==========================================================================
